---------------------------- MODULE Spec2Model ----------------------------
(***************************************************************************)
(* Rock, Paper, Scissors (src/project3-udacity.py).                        *)
(*                                                                         *)
(* A Match owns two participants and two scores.  start_game loops over    *)
(* play_turn until participant 1's play() returns "quit", then prints the  *)
(* final report.  The model follows the control flow of start_game and     *)
(* play_turn; a step ends where the code blocks on input() or where a      *)
(* later claim needs to see an intermediate state (scores updated, update  *)
(* hooks not yet called).                                                  *)
(*                                                                         *)
(* A line typed by the human is a sequence of one-character strings, so    *)
(* that str.strip and str.lower are modelled by what they do.  A move is   *)
(* the TLA+ string of its name; Spell gives the characters of a name.      *)
(* The list options is a module global of the program, hence a variable.   *)
(***************************************************************************)
EXTENDS Integers, Sequences, FiniteSets, TLC

\* ------------------------------------------------------------- bounds --
\* No more than MaxRounds rounds are completed in a checked run.
MaxRounds == 4
\* No more than MaxReprompts invalid lines are typed at one play() call.
MaxReprompts == 2

\* ---------------------------------------------------------- constants --
\* Python's None.
None == "None"

\* The value of line while no line read is being tested: a sequence, as
\* every line is, that no typed line equals.
NoLine == <<None>>

\* The characters of the string literals the code compares with.
Spell ==
  [rock     |-> <<"r", "o", "c", "k">>,
   paper    |-> <<"p", "a", "p", "e", "r">>,
   scissors |-> <<"s", "c", "i", "s", "s", "o", "r", "s">>,
   quit     |-> <<"q", "u", "i", "t">>,
   q        |-> <<"q">>]

\* The classes a Match can be built from.
Human == "UserPlayer"
Fixed == "FixedRockPlayer"
Random == "RandomMovePlayer"
Mirror == "MirrorPlayer"
Sequential == "SequentialPlayer"
Kinds == {Human, Fixed, Random, Mirror, Sequential}

\* --------------------------------------------------------------- state --
VARIABLES
  options,       \* the module's list options
  participant1,  \* class of self.participant1
  participant2,  \* class of self.participant2
  mem1,          \* participant1's last_opponent_move / last_move, else None
  mem2,          \* participant2's last_opponent_move / last_move, else None
  score1,        \* self.score1
  score2,        \* self.score2
  round_count,   \* start_game's round_count; 0 before it is bound
  pc,            \* where start_game / play_turn / UserPlayer.play stands
  move1,         \* play_turn's move1; None while unbound
  move2,         \* play_turn's move2; None while unbound
  line,          \* the line input() just returned in UserPlayer.play
  reprompts,     \* history: lines rejected by the latest UserPlayer.play call
  round_msg,     \* the last round outcome printed by play_turn
  champion,      \* the overall result printed by start_game
  final_line,    \* the final-scores line printed by start_game, in pieces
  completed,     \* history: how many times play_turn has returned True
  prev1,         \* history: move1 of the last completed round
  prev2,         \* history: move2 of the last completed round
  beat1,         \* history: completed rounds whose move1 defeats move2
  beat2,         \* history: completed rounds whose move2 defeats move1
  calls,         \* history: number of calls of each participant's methods
  args1,         \* history: arguments of the last participant1.update call
  args2          \* history: arguments of the last participant2.update call

config == <<participant1, participant2>>
memory == <<mem1, mem2>>
scores == <<score1, score2>>
moves == <<move1, move2>>
prompt == <<line, reprompts>>
printed == <<round_msg, champion, final_line>>
history == <<completed, prev1, prev2, beat1, beat2, args1, args2>>
vars == <<options, config, memory, scores, round_count, pc, moves, prompt,
          printed, history, calls>>

\* ----------------------------------------------------- str operations --
UpperCase ==
  <<"A", "B", "C", "D", "E", "F", "G", "H", "I", "J", "K", "L", "M",
    "N", "O", "P", "Q", "R", "S", "T", "U", "V", "W", "X", "Y", "Z">>
LowerCase ==
  <<"a", "b", "c", "d", "e", "f", "g", "h", "i", "j", "k", "l", "m",
    "n", "o", "p", "q", "r", "s", "t", "u", "v", "w", "x", "y", "z">>
\* The characters str.strip() removes, among those a typed line can hold.
Whitespace == {" ", "\t"}

\* The lower-case letter of each upper-case letter.
lower_table ==
  [c \in {UpperCase[i] : i \in 1..Len(UpperCase)} |->
     LowerCase[CHOOSE i \in 1..Len(UpperCase) : UpperCase[i] = c]]

char_lower(c) == IF c \in DOMAIN lower_table THEN lower_table[c] ELSE c

\* str.lower()
str_lower(s) == [i \in 1..Len(s) |-> char_lower(s[i])]

RECURSIVE str_lstrip(_)
str_lstrip(s) ==
  IF s # <<>> /\ Head(s) \in Whitespace THEN str_lstrip(Tail(s)) ELSE s

RECURSIVE str_rstrip(_)
str_rstrip(s) ==
  IF s # <<>> /\ s[Len(s)] \in Whitespace
  THEN str_rstrip(SubSeq(s, 1, Len(s) - 1))
  ELSE s

\* str.lstrip() in place of str.strip().
str_strip_left(s) == str_lstrip(s)

\* str.strip()
str_strip(s) == str_rstrip(str_lstrip(s))

\* input(...).strip().lower()
user_input(text) == str_lower(str_strip(text))

\* `user_input in options`
in_options(u) == \E i \in 1..Len(options) : Spell[options[i]] = u

\* in_quit without the "q" of the list.
in_quit_word_only(u) == u = Spell["quit"]

\* `user_input in ["quit", "q"]`
in_quit(u) == u = Spell["quit"] \/ u = Spell["q"]

\* UserPlayer.play taking every line that names no move for a quit.
UserPlayer_play_else_quit(text) ==
  LET u == user_input(text) IN
  IF in_options(u)
  THEN options[CHOOSE i \in 1..Len(options) : Spell[options[i]] = u]
  ELSE "quit"

\* One pass of the loop body of UserPlayer.play on the line read: the value
\* returned ("rock", "paper", "scissors" or "quit"), or None when the loop
\* prints the error and prompts again.
UserPlayer_play(text) ==
  LET u == user_input(text) IN
  IF in_options(u)
  THEN options[CHOOSE i \in 1..Len(options) : Spell[options[i]] = u]
  ELSE IF in_quit(u) THEN "quit"
  ELSE None

\* --------------------------------------------------- scripted players --
\* options.index(m), 0-based as in Python.
options_index(m) == (CHOOSE i \in 1..Len(options) : options[i] = m) - 1

\* random.choice(options): any element.
random_choice == {options[i] : i \in 1..Len(options)}

\* FixedRockPlayer.play returning another move.
FixedRockPlayer_play_paper == {"paper"}

FixedRockPlayer_play == {"rock"}

RandomMovePlayer_play == random_choice

\* MirrorPlayer.play without the test for None.
MirrorPlayer_play_no_test(last_opponent_move) == {last_opponent_move}

\* MirrorPlayer.play ignoring what it has stored.
MirrorPlayer_play_random(last_opponent_move) == random_choice

MirrorPlayer_play(last_opponent_move) ==
  IF last_opponent_move = None THEN random_choice ELSE {last_opponent_move}

\* SequentialPlayer.play without the + 1.
SequentialPlayer_play_same(last_move) ==
  IF last_move = None
  THEN random_choice
  ELSE {options[(options_index(last_move) % Len(options)) + 1]}

SequentialPlayer_play(last_move) ==
  IF last_move = None
  THEN random_choice
  ELSE {options[((options_index(last_move) + 1) % Len(options)) + 1]}

\* The values play() of a scripted participant of class k with memory mem
\* can return.
play(k, mem) ==
  CASE k = Fixed      -> FixedRockPlayer_play
    [] k = Random     -> RandomMovePlayer_play
    [] k = Mirror     -> MirrorPlayer_play(mem)
    [] k = Sequential -> SequentialPlayer_play(mem)

\* MirrorPlayer.update storing the wrong argument.
MirrorPlayer_update_own(own_move, opponent_move) == own_move

MirrorPlayer_update(own_move, opponent_move) == opponent_move

SequentialPlayer_update(own_move, opponent_move) == own_move

\* The memory of a participant of class k after update(own_move,
\* opponent_move): Participant.update does nothing.
update(k, mem, own_move, opponent_move) ==
  CASE k = Mirror     -> MirrorPlayer_update(own_move, opponent_move)
    [] k = Sequential -> SequentialPlayer_update(own_move, opponent_move)
    [] OTHER          -> mem

\* ------------------------------------------------------------ resolver --
\* determine_winner with "scissors" for "rock" in its last line.
determine_winner_typo(choice1, choice2) ==
  \/ (choice1 = "rock" /\ choice2 = "scissors")
  \/ (choice1 = "scissors" /\ choice2 = "paper")
  \/ (choice1 = "paper" /\ choice2 = "scissors")

determine_winner(choice1, choice2) ==
  \/ (choice1 = "rock" /\ choice2 = "scissors")
  \/ (choice1 = "scissors" /\ choice2 = "paper")
  \/ (choice1 = "paper" /\ choice2 = "rock")


\* The rule set of the game, as a table: <<a, b>> is in it when a defeats b.
\* Only the history variables beat1 and beat2 and the claims read it; the
\* program's own rule is determine_winner.
Defeats ==
  {<<"rock", "scissors">>, <<"scissors", "paper">>, <<"paper", "rock">>}

\* Lines a human can type at the prompt.
Lines ==
  { <<"r", "o", "c", "k">>,
    <<" ", "R", "o", "c", "k", " ">>,
    <<"R", "O", "C", "K">>,
    <<"P", "A", "P", "E", "R">>,
    <<"p", "a", "p", "e", "r", "\t">>,
    <<"s", "c", "i", "s", "s", "o", "r", "s">>,
    <<" ", " ", "S", "c", "i", "s", "s", "o", "r", "s">>,
    <<"q", "u", "i", "t">>,
    <<"Q">>,
    <<"\t", "Q", "u", "i", "T", " ">>,
    <<"q", " ">>,
    <<"b", "a", "n", "a", "n", "a">>,
    <<"r", " ", "o", "c", "k">>,
    <<"r", "o", "c", "k", "s">>,
    <<"q", "u", "i">>,
    <<"1">>,
    <<" ">>,
    <<>> }

\* Match.__init__, for every pair of participant classes.
Init ==
  /\ options = <<"rock", "paper", "scissors">>
  /\ participant1 \in Kinds
  /\ participant2 \in Kinds
  /\ mem1 = None
  /\ mem2 = None
  /\ score1 = 0
  /\ score2 = 0
  /\ round_count = 0
  /\ pc = "start"
  /\ move1 = None
  /\ move2 = None
  /\ line = NoLine
  /\ reprompts = 0
  /\ round_msg = None
  /\ champion = None
  /\ final_line = <<>>
  /\ completed = 0
  /\ prev1 = None
  /\ prev2 = None
  /\ beat1 = 0
  /\ beat2 = 0
  /\ calls = [play1 |-> 0, play2 |-> 0, update1 |-> 0, update2 |-> 0]
  /\ args1 = <<>>
  /\ args2 = <<>>

\* ------------------------------------------------------------- actions --
\* start_game up to the first play_turn call.
StartGame ==
  /\ pc = "start"
  /\ round_count' = 1
  /\ pc' = "play1"
  /\ UNCHANGED <<options, config, memory, scores, moves, prompt, printed,
                 history, calls>>

\* after_play1 without the quit test.
after_play1_no_test(m) == "play2"

\* Where play_turn goes once participant1.play() has returned m.
after_play1(m) == IF m = "quit" THEN "over" ELSE "play2"

\* play_turn: move1 = self.participant1.play() of a scripted participant 1,
\* and the quit test.
Play1 ==
  /\ pc = "play1"
  /\ participant1 # Human
  /\ completed < MaxRounds
  /\ \E m \in play(participant1, mem1) :
       /\ move1' = m
       /\ pc' = after_play1(m)
  /\ move2' = None
  /\ calls' = [calls EXCEPT !.play1 = @ + 1]
  /\ UNCHANGED <<options, config, memory, scores, round_count, prompt,
                 printed, history>>

\* The rejected-line count as a line is read: a read at pc "play1" or
\* "play2" is the first of a new play() call, one at "prompt1" or "prompt2"
\* follows a rejected line of the same call.
entered(at, n) == IF at \in {"play1", "play2"} THEN 0 ELSE n

\* UserPlayer.play of participant 1: input() returns a line.
ReadLine1 ==
  /\ pc \in {"play1", "prompt1"}
  /\ participant1 = Human
  /\ \E l \in Lines :
       /\ UserPlayer_play(l) \in random_choice => completed < MaxRounds
       /\ UserPlayer_play(l) = None => entered(pc, reprompts) < MaxReprompts
       /\ line' = l
  /\ reprompts' = entered(pc, reprompts)
  /\ calls' = [calls EXCEPT !.play1 = IF pc = "play1" THEN @ + 1 ELSE @]
  /\ pc' = "got1"
  /\ UNCHANGED <<options, config, memory, scores, round_count, moves, printed,
                 history>>

\* UserPlayer.play of participant 1: the line is stripped, lower-cased and
\* tested; play() returns, or prints the error and prompts again.  On a
\* return, play_turn binds move1 and tests it for quit.
Validate1 ==
  /\ pc = "got1"
  /\ LET m == UserPlayer_play(line) IN
       IF m = None
       THEN /\ reprompts' = reprompts + 1
            /\ pc' = "prompt1"
            /\ UNCHANGED moves
       ELSE /\ UNCHANGED reprompts
            /\ move1' = m
            /\ move2' = None
            /\ pc' = after_play1(m)
  /\ line' = NoLine
  /\ UNCHANGED <<options, config, memory, scores, round_count, printed,
                 history, calls>>

\* Play2 with SequentialPlayer.play storing the move it returns.
Play2_storing ==
  /\ pc = "play2"
  /\ participant2 # Human
  /\ \E m \in play(participant2, mem2) :
       /\ move2' = m
       /\ mem2' = (IF participant2 = Sequential THEN m ELSE mem2)
  /\ pc' = "resolve"
  /\ calls' = [calls EXCEPT !.play2 = @ + 1]
  /\ UNCHANGED <<options, config, mem1, scores, round_count, move1,
                 prompt, printed, history>>

\* play_turn: move2 = self.participant2.play() of a scripted participant 2.
Play2 ==
  /\ pc = "play2"
  /\ participant2 # Human
  /\ \E m \in play(participant2, mem2) : move2' = m
  /\ pc' = "resolve"
  /\ calls' = [calls EXCEPT !.play2 = @ + 1]
  /\ UNCHANGED <<options, config, memory, scores, round_count, move1,
                 prompt, printed, history>>

\* UserPlayer.play of participant 2: input() returns a line.
ReadLine2 ==
  /\ pc \in {"play2", "prompt2"}
  /\ participant2 = Human
  /\ \E l \in Lines :
       /\ UserPlayer_play(l) = None => entered(pc, reprompts) < MaxReprompts
       /\ line' = l
  /\ reprompts' = entered(pc, reprompts)
  /\ calls' = [calls EXCEPT !.play2 = IF pc = "play2" THEN @ + 1 ELSE @]
  /\ pc' = "got2"
  /\ UNCHANGED <<options, config, memory, scores, round_count, moves, printed,
                 history>>

\* UserPlayer.play of participant 2: as Validate1; play_turn binds move2 and
\* goes on to resolve the round whatever play() returned.
Validate2 ==
  /\ pc = "got2"
  /\ LET m == UserPlayer_play(line) IN
       IF m = None
       THEN /\ reprompts' = reprompts + 1
            /\ pc' = "prompt2"
            /\ UNCHANGED moves
       ELSE /\ UNCHANGED reprompts
            /\ move2' = m
            /\ pc' = "resolve"
            /\ UNCHANGED move1
  /\ line' = NoLine
  /\ UNCHANGED <<options, config, memory, scores, round_count, printed,
                 history, calls>>

\* round_outcome with the elif repeating the test of the if.
round_outcome_repeated(m1, m2) ==
  IF determine_winner(m1, m2) THEN "Player 1 wins the round!"
  ELSE IF determine_winner(m1, m2) THEN "Player 2 wins the round!"
  ELSE "It's a tie this round!"

\* The round outcome play_turn prints for the two moves.
round_outcome(m1, m2) ==
  IF determine_winner(m1, m2) THEN "Player 1 wins the round!"
  ELSE IF determine_winner(m2, m1) THEN "Player 2 wins the round!"
  ELSE "It's a tie this round!"

\* new_score1 with the arguments of determine_winner exchanged.
new_score1_swapped(s1, m1, m2) ==
  IF determine_winner(m2, m1) THEN s1 + 1 ELSE s1

\* new_score1 with the increment outside the if.
new_score1_always(s1, m1, m2) == s1 + 1

\* self.score1 after the if / elif / else of play_turn.
new_score1(s1, m1, m2) == IF determine_winner(m1, m2) THEN s1 + 1 ELSE s1

\* self.score2 after the if / elif / else of play_turn.
new_score2(s2, m1, m2) ==
  IF determine_winner(m1, m2) THEN s2
  ELSE IF determine_winner(m2, m1) THEN s2 + 1
  ELSE s2

\* play_turn: the round is resolved, the outcome printed, a score updated.
Resolve ==
  /\ pc = "resolve"
  /\ round_msg' = round_outcome(move1, move2)
  /\ score1' = new_score1(score1, move1, move2)
  /\ score2' = new_score2(score2, move1, move2)
  /\ pc' = "update"
  /\ UNCHANGED <<options, config, memory, round_count, moves, prompt,
                 champion, final_line, history, calls>>

\* The arguments of self.participant1.update(...) in play_turn.
update_args1(m1, m2) == <<m1, m2>>

\* update_args2 with the moves in the order of participant 1's call.
update_args2_as1(m1, m2) == <<m1, m2>>

\* The arguments of self.participant2.update(...) in play_turn.
update_args2(m1, m2) == <<m2, m1>>

\* round_count += 1 placed before the play_turn call as well.
next_round_count_twice(n) == n + 2

\* start_game: round_count += 1.
next_round_count(n) == n + 1

\* play_turn: both update hooks are called and True is returned, which ends
\* the life of move1 and move2; start_game increments round_count and loops.
Update ==
  /\ pc = "update"
  /\ mem1' = update(participant1, mem1, update_args1(move1, move2)[1],
                                          update_args1(move1, move2)[2])
  /\ mem2' = update(participant2, mem2, update_args2(move1, move2)[1],
                                          update_args2(move1, move2)[2])
  /\ round_count' = next_round_count(round_count)
  /\ pc' = "play1"
  /\ completed' = completed + 1
  /\ prev1' = move1
  /\ prev2' = move2
  /\ beat1' = IF <<move1, move2>> \in Defeats THEN beat1 + 1 ELSE beat1
  /\ beat2' = IF <<move2, move1>> \in Defeats THEN beat2 + 1 ELSE beat2
  /\ args1' = update_args1(move1, move2)
  /\ args2' = update_args2(move1, move2)
  /\ calls' = [calls EXCEPT !.update1 = @ + 1, !.update2 = @ + 1]
  /\ move1' = None
  /\ move2' = None
  /\ UNCHANGED <<options, config, scores, prompt, printed>>

\* overall_winner with >= for the first >.
overall_winner_ge(s1, s2) ==
  IF s1 >= s2 THEN "Player 1 is the champion!"
  ELSE IF s2 > s1 THEN "Player 2 is the champion!"
  ELSE "It's a draw!"

\* The overall result start_game prints after the loop.
overall_winner(s1, s2) ==
  IF s1 > s2 THEN "Player 1 is the champion!"
  ELSE IF s2 > s1 THEN "Player 2 is the champion!"
  ELSE "It's a draw!"

\* The pieces of the final-scores line of start_game: an f-string holding
\* {self.score1}, and an adjacent plain literal, whose braces are printed
\* as they stand.
final_scores_line(s1, s2) ==
  <<"Final Scores -> Player 1: ", ToString(s1), ",",
    "Player 2: ", "{self.score2}">>

\* start_game after the loop: "Game over!", the final-scores line and the
\* overall result.
Finish ==
  /\ pc = "over"
  /\ final_line' = final_scores_line(score1, score2)
  /\ champion' = overall_winner(score1, score2)
  /\ pc' = "done"
  /\ UNCHANGED <<options, config, memory, scores, round_count, moves, prompt,
                 round_msg, history, calls>>

Next ==
  \/ StartGame
  \/ Play1
  \/ ReadLine1
  \/ Validate1
  \/ Play2
  \/ ReadLine2
  \/ Validate2
  \/ Resolve
  \/ Update
  \/ Finish

Spec == Init /\ [][Next]_vars

\* The program as __main__ builds it: game = Match(UserPlayer(), opponent),
\* the opponent being one of the four scripted classes.
MainInit ==
  /\ Init
  /\ participant1 = Human
  /\ participant2 \in {Random, Mirror, Sequential, Fixed}

\* The steps of that program that do not wait for the human.
MainRun ==
  \/ StartGame
  \/ Validate1
  \/ Play2
  \/ Resolve
  \/ Update
  \/ Finish

MainNext ==
  \/ ReadLine1
  \/ MainRun

\* The program runs on by itself; only input() waits, for as long as the
\* human types nothing.
MainSpec == MainInit /\ [][MainNext]_vars /\ WF_vars(MainRun)

\* ------------------------------------------------------------- claims --
\* 1 when the round being updated (scored, not yet completed) has a
\* defeating b, else 0.
Scored(a, b) == IF pc = "update" /\ <<a, b>> \in Defeats THEN 1 ELSE 0

\* C1: after any number of completed rounds, score1 is the number of rounds
\* in which move1 defeated move2, score2 the number in which move2 defeated
\* move1, and the two together do not exceed the number of rounds (a tie
\* adds to neither).  Between the scoring of a round and its completion the
\* round being scored counts too.
C1_RoundScoring ==
  /\ score1 = beat1 + Scored(move1, move2)
  /\ score2 = beat2 + Scored(move2, move1)
  /\ score1 + score2 <= completed + (IF pc = "update" THEN 1 ELSE 0)

\* Three rounds are complete: one won by each side and one tied.
C1_Witness ==
  /\ pc = "play1"
  /\ completed = 3
  /\ score1 = 1
  /\ score2 = 1

\* C2: for the two legal moves a round resolves, exactly one of
\* determine_winner(a, b), determine_winner(b, a) is true when they differ,
\* and neither is when they are equal.
C2_ExactlyOneBeats ==
  (pc = "resolve" /\ move1 \in random_choice /\ move2 \in random_choice) =>
    /\ move1 # move2 =>
         determine_winner(move1, move2) # determine_winner(move2, move1)
    /\ move1 = move2 =>
         ~determine_winner(move1, move2) /\ ~determine_winner(move2, move1)

\* A round with two different legal moves is being resolved.
C2_Witness ==
  /\ pc = "resolve"
  /\ move1 = "paper"
  /\ move2 = "scissors"

\* C3: determine_winner(a, b) is true exactly for (rock, scissors),
\* (scissors, paper) and (paper, rock); the round goes to side 1 when
\* determine_winner(move1, move2), to side 2 when
\* determine_winner(move2, move1), and is a tie otherwise.
C3_StandardRules ==
  /\ (pc = "resolve" /\ move1 \in random_choice /\ move2 \in random_choice) =>
       /\ determine_winner(move1, move2) <=> <<move1, move2>> \in Defeats
       /\ determine_winner(move2, move1) <=> <<move2, move1>> \in Defeats
  /\ pc = "update" =>
       /\ round_msg = "Player 1 wins the round!"
            <=> determine_winner(move1, move2)
       /\ round_msg = "Player 2 wins the round!"
            <=> determine_winner(move2, move1)
       /\ round_msg = "It's a tie this round!"
            <=> (~determine_winner(move1, move2)
                 /\ ~determine_winner(move2, move1))

\* A round that side 2 won with rock against scissors has been resolved.
C3_Witness ==
  /\ pc = "update"
  /\ move1 = "scissors"
  /\ move2 = "rock"
  /\ round_msg = "Player 2 wins the round!"

\* C4: when participant 1's play() returns quit the match goes straight to
\* its end: participant 2's play() is not called, no score changes, no
\* update() is called, round_count is not incremented; and once the match
\* has ended no round is started.
C4_Quit1Terminates ==
  [][/\ (pc \in {"play1", "got1"} /\ move1' = "quit") =>
          /\ pc' = "over"
          /\ move2' = None
          /\ UNCHANGED <<scores, memory, round_count, completed>>
          /\ calls'.play2 = calls.play2
          /\ calls'.update1 = calls.update1
          /\ calls'.update2 = calls.update2
     /\ pc \in {"over", "done"} =>
          /\ pc' \in {"over", "done"}
          /\ UNCHANGED <<scores, memory, round_count, completed, calls>>
    ]_vars

\* The human at side 1 has quit in round 3: two rounds are complete and
\* participant 2 has played and been updated twice.
C4_Witness ==
  /\ pc = "done"
  /\ participant1 = Human
  /\ move1 = "quit"
  /\ move2 = None
  /\ completed = 2
  /\ round_count = 3
  /\ calls.play1 = 3
  /\ calls.play2 = 2
  /\ calls.update2 = 2

\* C5: with a human as participant 2, a quit returned by participant 2's
\* play() ends the match in that round: the round is neither resolved nor
\* completed, and no update() receives the quit.
C5_Quit2Terminates ==
  /\ (participant2 = Human /\ move2 = "quit") => pc \in {"over", "done"}
  /\ participant2 = Human =>
       /\ prev2 # "quit"
       /\ args1 = <<>> \/ args1[2] # "quit"
       /\ args2 = <<>> \/ args2[1] # "quit"

\* C6: from its second round on, MirrorPlayer plays what its opponent played
\* in the round before; its first move is a legal move.
C6_MirrorRepeatsOpponent ==
  /\ (participant1 = Mirror /\ move1 # None) =>
       IF completed = 0 THEN move1 \in random_choice ELSE move1 = prev2
  /\ (participant2 = Mirror /\ move2 # None) =>
       IF completed = 0 THEN move2 \in random_choice ELSE move2 = prev1

\* Round 3 against an opponent that played rock in round 2 and plays
\* scissors now: the mirror has answered rock.
C6_Witness ==
  /\ participant2 = Mirror
  /\ pc = "resolve"
  /\ completed = 2
  /\ prev1 = "rock"
  /\ move1 = "scissors"
  /\ move2 = "rock"

\* The fixed order rock -> paper -> scissors -> rock.
CyclicSuccessor ==
  [rock |-> "paper", paper |-> "scissors", scissors |-> "rock"]

\* C7: from its second round on, SequentialPlayer plays the cyclic successor
\* of its own move of the round before, whatever the opponent played.
C7_SequentialCycles ==
  /\ (participant1 = Sequential /\ move1 # None /\ completed > 0) =>
       move1 = CyclicSuccessor[prev1]
  /\ (participant2 = Sequential /\ move2 # None /\ completed > 0) =>
       move2 = CyclicSuccessor[prev2]

\* Round 3 of a SequentialPlayer that played paper in round 2: it plays
\* scissors, while the opponent repeats the rock of round 2.
C7_Witness ==
  /\ participant2 = Sequential
  /\ pc = "resolve"
  /\ completed = 2
  /\ prev2 = "paper"
  /\ move2 = "scissors"
  /\ prev1 = "rock"
  /\ move1 = "rock"

\* The tokens the console accepts.
Accepted == {"rock", "paper", "scissors", "quit", "q"}

\* Character c is letter d up to case.
SameLetter(c, d) ==
  c = d \/ \E j \in 1..Len(UpperCase) : UpperCase[j] = c /\ LowerCase[j] = d

\* Line l is word w up to case, between leading and trailing whitespace.
Names(l, w) ==
  \E i \in 0..Len(l) :
    /\ i + Len(Spell[w]) <= Len(l)
    /\ \A k \in 1..i : l[k] \in Whitespace
    /\ \A k \in (i + Len(Spell[w]) + 1)..Len(l) : l[k] \in Whitespace
    /\ \A k \in 1..Len(Spell[w]) : SameLetter(l[i + k], Spell[w][k])

\* Line l is a valid token.
Valid(l) == \E w \in Accepted : Names(l, w)

\* What a valid line selects: a move, or quit.
Selected(l) ==
  LET w == CHOOSE w \in Accepted : Names(l, w)
  IN IF w \in {"quit", "q"} THEN "quit" ELSE w

\* C8: a line that is not a valid token only causes another prompt: no move
\* is returned, no round is consumed, the scores, round_count and both
\* memories stay as they are, participant 2 is not consulted and the match
\* does not end.
C8_InvalidReprompts ==
  [][(pc \in {"got1", "got2"} /\ ~Valid(line)) =>
       /\ pc' = (IF pc = "got1" THEN "prompt1" ELSE "prompt2")
       /\ UNCHANGED <<moves, scores, round_count, memory, completed, calls,
                      printed>>
    ]_vars

\* In round 2 a line of participant 1 has been rejected and the prompt is
\* shown again.
C8_Witness ==
  /\ pc = "prompt1"
  /\ reprompts = 2
  /\ completed = 1
  /\ move1 = None

\* The values UserPlayer.play can return.
Returned == random_choice \cup {"quit"}

\* C9: UserPlayer.play returns only rock, paper, scissors or quit, and what
\* it returns is what the first valid line selects: a valid line makes it
\* return that selection, an invalid one is skipped.
C9_FirstValidToken ==
  [][/\ (pc = "got1" /\ Valid(line)) =>
          pc' \in {"play2", "over"} /\ move1' = Selected(line)
     /\ (pc = "got2" /\ Valid(line)) =>
          pc' = "resolve" /\ move2' = Selected(line)
     /\ (pc \in {"got1", "got2"} /\ ~Valid(line)) =>
          pc' \in {"prompt1", "prompt2"} /\ UNCHANGED moves
     /\ participant1 = Human => move1' \in Returned \cup {None}
     /\ participant2 = Human => move2' \in Returned \cup {None}
    ]_vars

\* Participant 1's play() has returned paper after skipping two invalid
\* lines.
C9_Witness ==
  /\ participant1 = Human
  /\ pc = "play2"
  /\ reprompts = 2
  /\ move1 = "paper"

\* C10: at the end of the match the overall winner reported is side 1
\* exactly when score1 > score2, side 2 exactly when score2 > score1, and a
\* draw exactly when the scores are equal.
C10_OverallWinner ==
  pc = "done" =>
    /\ champion = "Player 1 is the champion!" <=> score1 > score2
    /\ champion = "Player 2 is the champion!" <=> score2 > score1
    /\ champion = "It's a draw!" <=> score1 = score2

\* A match of three rounds has ended 1-1 and a draw is reported.
C10_Witness ==
  /\ pc = "done"
  /\ completed = 3
  /\ score1 = 1
  /\ score2 = 1
  /\ champion = "It's a draw!"

\* C12: the final-scores line printed at the end of the match gives score1
\* as the value of Player 1 and score2 as the value of Player 2.
C12_ReportConveysScores ==
  pc = "done" =>
    /\ final_line[1] = "Final Scores -> Player 1: "
    /\ final_line[2] = ToString(score1)
    /\ final_line[4] = "Player 2: "
    /\ final_line[5] = ToString(score2)

\* C13: the scores are never negative and never decrease; a score changes
\* only in the step that resolves a round, once per round, by exactly 1 on
\* exactly one side.
C13_ScoresMonotone ==
  [][/\ score1 >= 0 /\ score2 >= 0 /\ score1' >= 0 /\ score2' >= 0
     /\ score1' >= score1 /\ score2' >= score2
     /\ scores' # scores =>
          /\ pc = "resolve" /\ pc' = "update"
          /\ \/ score1' = score1 + 1 /\ score2' = score2
             \/ score1' = score1 /\ score2' = score2 + 1
     /\ pc = "update" => pc' = "play1" /\ completed' = completed + 1
     /\ completed' # completed => pc = "update"
    ]_vars

\* Round 3 has just been scored for side 2, after one round won by each
\* side.
C13_Witness ==
  /\ pc = "update"
  /\ completed = 2
  /\ beat1 = 1
  /\ beat2 = 1
  /\ score1 = 1
  /\ score2 = 2

\* C14: once start_game has bound it, round_count is 1 plus the number of
\* completed rounds: it starts at 1, and a round ended by quit does not
\* increment it.
C14_RoundCounter ==
  /\ pc = "start" => completed = 0
  /\ pc # "start" => round_count = completed + 1

\* The match has ended by a quit in round 4.
C14_Witness ==
  /\ pc = "over"
  /\ move1 = "quit"
  /\ completed = 3
  /\ round_count = 4

\* C15: in every completed round, between the scoring and the next round's
\* first play(), update() is called exactly once on each participant:
\* participant 1 with (move1, move2), participant 2 with (move2, move1).
C15_UpdateOncePerRound ==
  [][/\ calls'.update1 = completed' /\ calls'.update2 = completed'
     /\ calls'.play1 \in {completed', completed' + 1}
     /\ calls'.play1 = completed' + 1 <=> pc' \notin {"start", "play1"}
     /\ (calls'.update1 # calls.update1 \/ calls'.update2 # calls.update2) =>
          /\ pc = "update"
          /\ calls'.update1 = calls.update1 + 1
          /\ calls'.update2 = calls.update2 + 1
          /\ args1' = <<move1, move2>>
          /\ args2' = <<move2, move1>>
          /\ calls'.play1 = calls.play1
     /\ pc = "update" =>
          /\ calls'.update1 = calls.update1 + 1
          /\ calls'.update2 = calls.update2 + 1
    ]_vars

\* Round 2 is complete: each participant has been updated twice, the last
\* time with its own paper or scissors first.
C15_Witness ==
  /\ pc = "play1"
  /\ completed = 2
  /\ calls.update1 = 2
  /\ calls.update2 = 2
  /\ args1 = <<"paper", "scissors">>
  /\ args2 = <<"scissors", "paper">>

\* Line l is a quit token.
QuitToken(l) == Names(l, "quit") \/ Names(l, "q")

\* C16: in the program as __main__ builds it, a quit token typed at the
\* prompt leads to the end of the match, and the match ends in no other way.
C16_EndsExactlyOnQuit ==
  /\ (pc = "got1" /\ QuitToken(line)) ~> (pc = "done")
  /\ [][(pc' \in {"over", "done"} /\ pc \notin {"over", "done"}) =>
          (pc = "got1" /\ QuitToken(line))]_vars
  /\ [](pc \in {"over", "done"} => move1 = "quit")

\* The human has quit in round 2, after one rejected line, and the match
\* has ended.
C16_Witness ==
  /\ pc = "done"
  /\ completed = 1
  /\ reprompts = 1
  /\ move1 = "quit"
  /\ champion # None

\* C17: in the program as __main__ builds it, participant 2's move is a
\* legal move in every round, the first included, and neither memory ever
\* holds anything but None or a legal move.
C17_Participant2Legal ==
  /\ pc \in {"resolve", "update"} => move2 \in random_choice
  /\ move2 \in random_choice \cup {None}
  /\ mem1 = None
  /\ mem2 \in random_choice \cup {None}
  /\ participant2 \in {Mirror, Sequential} =>
       mem2 = (IF completed = 0 THEN None
               ELSE IF participant2 = Mirror THEN prev1 ELSE prev2)

\* A MirrorPlayer with no history has answered its first call with
\* scissors.
C17_Witness ==
  /\ participant2 = Mirror
  /\ pc = "resolve"
  /\ completed = 0
  /\ mem2 = None
  /\ move2 = "scissors"

\* C19: human against MirrorPlayer: from round 2 on the round goes to side 1
\* exactly when the human's move defeats the human's previous move, to
\* side 2 exactly when the previous move defeats this one, and is a tie
\* exactly when the human repeats the previous move.
C19_MirrorOutcome ==
  (participant2 = Mirror /\ pc = "update" /\ completed >= 1) =>
    /\ round_msg = "Player 1 wins the round!" <=> <<move1, prev1>> \in Defeats
    /\ round_msg = "Player 2 wins the round!" <=> <<prev1, move1>> \in Defeats
    /\ round_msg = "It's a tie this round!" <=> move1 = prev1
    /\ score1 = beat1 + (IF <<move1, prev1>> \in Defeats THEN 1 ELSE 0)
    /\ score2 = beat2 + (IF <<prev1, move1>> \in Defeats THEN 1 ELSE 0)

\* Round 2 against the mirror: the human, who played rock, plays paper and
\* wins the round.
C19_Witness ==
  /\ participant1 = Human
  /\ participant2 = Mirror
  /\ pc = "update"
  /\ completed = 1
  /\ prev1 = "rock"
  /\ move1 = "paper"
  /\ round_msg = "Player 1 wins the round!"

\* C18: play() of a scripted participant changes nothing but what it
\* returns: both memories, both scores and the list options stay as they
\* are; a memory changes only in the step that calls update().
C18_PlayHasNoSideEffect ==
  [][/\ ((pc = "play1" /\ participant1 # Human)
         \/ (pc = "play2" /\ participant2 # Human)) =>
          /\ calls'.play1 + calls'.play2 = calls.play1 + calls.play2 + 1
          /\ UNCHANGED <<mem1, mem2, score1, score2, options>>
     /\ memory' # memory =>
          /\ pc = "update"
          /\ calls'.update1 = calls.update1 + 1
          /\ calls'.update2 = calls.update2 + 1
     /\ options' = options
    ]_vars

\* Round 2 of MirrorPlayer against SequentialPlayer: both have played from
\* their memories, which still hold what update() stored after round 1.
C18_Witness ==
  /\ participant1 = Mirror
  /\ participant2 = Sequential
  /\ pc = "resolve"
  /\ completed = 1
  /\ mem1 = "rock"
  /\ move1 = "rock"
  /\ mem2 = "rock"
  /\ move2 = "paper"
  /\ options = <<"rock", "paper", "scissors">>

\* The end-to-end scenario: what the human's valid lines select, in order.
Script == <<"rock", "paper", "quit">>

\* Match(UserPlayer(), FixedRockPlayer()).
ScenarioInit ==
  /\ Init
  /\ participant1 = Human
  /\ participant2 = Fixed

\* input() returns a line of the scenario: an invalid line at any prompt,
\* or a valid one selecting the next entry of Script.
ScenarioReadLine ==
  /\ ReadLine1
  /\ Valid(line') =>
       /\ completed < Len(Script)
       /\ Selected(line') = Script[completed + 1]

ScenarioNext ==
  \/ StartGame
  \/ ScenarioReadLine
  \/ Validate1
  \/ Play2
  \/ Resolve
  \/ Update
  \/ Finish

ScenarioSpec == ScenarioInit /\ [][ScenarioNext]_vars

\* C11: the human plays rock, paper, quit against FixedRockPlayer: round 1
\* is a tie at 0-0, round 2 goes to participant 1 at 1-0, the quit of
\* round 3 ends the match at once, at 1-0, and Player 1 is the champion.
C11_EndToEnd ==
  /\ completed <= 2
  /\ (pc = "update" /\ completed = 0) =>
       /\ move1 = "rock" /\ move2 = "rock"
       /\ round_msg = "It's a tie this round!"
       /\ score1 = 0 /\ score2 = 0
  /\ (pc = "update" /\ completed = 1) =>
       /\ move1 = "paper" /\ move2 = "rock"
       /\ round_msg = "Player 1 wins the round!"
       /\ score1 = 1 /\ score2 = 0
  /\ completed = 2 =>
       /\ pc \in {"play1", "prompt1", "got1", "over", "done"}
       /\ score1 = 1 /\ score2 = 0
  /\ pc \in {"over", "done"} =>
       /\ completed = 2
       /\ move1 = "quit"
       /\ calls.play2 = 2
  /\ pc = "done" => champion = "Player 1 is the champion!"

\* The scenario has run to its end.
C11_Witness ==
  /\ pc = "done"
  /\ completed = 2
  /\ prev1 = "paper"
  /\ prev2 = "rock"
  /\ score1 = 1
  /\ score2 = 0
  /\ champion = "Player 1 is the champion!"

==========================================================================
